---- MODULE Spec2Model ----
(***************************************************************************)
(* PhishGuard front ends: the scan request lifecycle, the display of the   *)
(* per-feature contributions and the scan history, for the four front ends *)
(* of the repository:                                                      *)
(*   "script"    Frontend/script.js          (result panel, localStorage)  *)
(*   "modal"     unnamed/part_001            (result modal, localStorage)  *)
(*   "scanner"   unnamed/part_000            (React, result only)          *)
(*   "dashboard" phishguard-dashboard/src/App.jsx (React, session history) *)
(* One run of the model is one front end (app is fixed by Init).           *)
(***************************************************************************)
EXTENDS Integers, Sequences, FiniteSets, TLC

\* ------------------------------------------------------------------ bounds
\* fetches dispatched in one run
MaxCalls == 2
\* readings of the clock (Date.now) range over 0..MaxClock
MaxClock == 1
\* length of the enumerated contribution lists
MaxContribs == 3

\* ------------------------------------------------------- program constants
\* saveHistory keeps h.slice(0,30)
HistoryCap == 30
\* renderContribList / runCheck keep slice(0,8)
ContribCap == 8

\* ------------------------------------------------------------- JS values
\* Numbers are fixed point with four decimals (the finest precision the
\* code prints, toFixed(4)): Num(3100) is 0.31, Num(-9000) is -0.9.
Unit == 10 ^ 4
Null == [t |-> "null"]
Undefined == [t |-> "undefined"]
Num(n) == [t |-> "number", v |-> n]
Str(s) == [t |-> "string", v |-> s]

\* o.k of a JSON object o: undefined when the key is absent
Get(o, k) == IF k \in DOMAIN o THEN o[k] ELSE Undefined

\* x || 0 on a number, null or undefined
OrZero(x) == IF x.t = "number" THEN x.v ELSE 0

Abs(n) == IF n < 0 THEN -n ELSE n

\* el.textContent = x : null and undefined give the empty text (the code
\* reads texts only where the service sends strings)
ToText(x) == IF x.t = "string" THEN x.v ELSE IF x.t = "number" THEN ToString(x.v) ELSE ""

RECURSIVE TrimLeft(_)
TrimLeft(s) ==
  IF Len(s) > 0 /\ SubSeq(s, 1, 1) = " " THEN TrimLeft(SubSeq(s, 2, Len(s))) ELSE s

RECURSIVE TrimRight(_)
TrimRight(s) ==
  IF Len(s) > 0 /\ SubSeq(s, Len(s), Len(s)) = " "
  THEN TrimRight(SubSeq(s, 1, Len(s) - 1)) ELSE s

\* String.prototype.trim
Trim(s) == TrimRight(TrimLeft(s))

RECURSIVE Digits(_, _)
\* the last d decimal digits of n, zero padded
Digits(n, d) == IF d = 0 THEN "" ELSE Digits(n \div 10, d - 1) \o ToString(n % 10)

\* Number.prototype.toFixed(d) of the number n / 10^k  (d <= k), rounding the
\* magnitude half up
ToFixed(n, k, d) ==
  LET q == 10 ^ (k - d)
      r == (Abs(n) + (q \div 2)) \div q
      p == 10 ^ d
  IN (IF n < 0 THEN "-" ELSE "") \o ToString(r \div p)
     \o (IF d = 0 THEN "" ELSE "." \o Digits(r % p, d))

\* (x*100).toFixed(d) of a number x held in units of 1/Unit
Pct(n, d) == ToFixed(n, 2, d)

Arr(s) == [t |-> "array", v |-> s]

Min(a, b) == IF a < b THEN a ELSE b

\* Array.prototype.slice(0, n)
Slice(s, n) == SubSeq(s, 1, Min(n, Len(s)))

\* ---------------------------------------------------- explanation registry
DefaultKey == "__default__"

\* The registry with the text of the reserved key left empty (a fault the
\* totality property detects)
FEATURE_EXPLANATIONS_EmptyDefault ==
  [ length_url |-> "Very long URLs are often used in phishing attacks to hide malicious parameters and confuse users.",
    directory_length |-> "Long and deeply nested directory paths are commonly used to conceal phishing content.",
    qty_slash_directory |-> "Multiple directory slashes can indicate complex redirection patterns often seen in phishing URLs.",
    qty_dot_file |-> "Excessive dots in file names may suggest obfuscation techniques used by attackers.",
    qty_dollar_directory |-> "Special characters like '$' are frequently used in phishing URLs to trick users.",
    time_domain_activation |-> "Newly registered domains are commonly associated with phishing campaigns.",
    domain_length |-> "Unusually long domain names may be crafted to resemble legitimate brands.",
    qty_hyphen_domain |-> "Hyphens in domain names are often used to imitate trusted websites.",
    qty_subdomain |-> "Multiple subdomains can be used to mislead users about the true destination of a URL.",
    https_token |-> "The presence or misuse of HTTPS-related tokens can be deceptive in phishing URLs.",
    ip_address |-> "Using an IP address instead of a domain name is a strong indicator of phishing behavior.",
    __default__ |-> "" ]

FEATURE_EXPLANATIONS ==
  [ length_url |-> "Very long URLs are often used in phishing attacks to hide malicious parameters and confuse users.",
    directory_length |-> "Long and deeply nested directory paths are commonly used to conceal phishing content.",
    qty_slash_directory |-> "Multiple directory slashes can indicate complex redirection patterns often seen in phishing URLs.",
    qty_dot_file |-> "Excessive dots in file names may suggest obfuscation techniques used by attackers.",
    qty_dollar_directory |-> "Special characters like '$' are frequently used in phishing URLs to trick users.",
    time_domain_activation |-> "Newly registered domains are commonly associated with phishing campaigns.",
    domain_length |-> "Unusually long domain names may be crafted to resemble legitimate brands.",
    qty_hyphen_domain |-> "Hyphens in domain names are often used to imitate trusted websites.",
    qty_subdomain |-> "Multiple subdomains can be used to mislead users about the true destination of a URL.",
    https_token |-> "The presence or misuse of HTTPS-related tokens can be deceptive in phishing URLs.",
    ip_address |-> "Using an IP address instead of a domain name is a strong indicator of phishing behavior.",
    __default__ |-> "This indicator represents a structural property of the URL commonly analyzed in phishing detection." ]

\* The explanation of a feature: the text registered under exactly that
\* key, and the text under the reserved default key for every other id.
explain(featureId) ==
  IF featureId \in DOMAIN FEATURE_EXPLANATIONS \ {DefaultKey}
  THEN FEATURE_EXPLANATIONS[featureId]
  ELSE FEATURE_EXPLANATIONS[DefaultKey]

\* ------------------------------------------------- display of contributions
\* A raw contribution is a JSON object {feature, contribution}; a displayed
\* one is an <li> holding exactly what the code writes into it.
Li(feature, display) == [kind |-> "item", feature |-> feature, display |-> display]
NoContributions == <<[kind |-> "muted", feature |-> "", display |-> "No contributions"]>>

\* Math.abs(c.contribution || 0)
SortKey(c) == Abs(OrZero(Get(c, "contribution")))

RECURSIVE InsertDesc(_, _)
\* x placed after every element whose key is >= its own (s is sorted)
InsertDesc(s, x) ==
  IF s = <<>> THEN <<x>>
  ELSE IF SortKey(Head(s)) >= SortKey(x) THEN <<Head(s)>> \o InsertDesc(Tail(s), x)
  ELSE <<x>> \o s

RECURSIVE SortByAbsDesc(_)
\* list.slice().sort((a,b) => Math.abs(b.contribution||0) - Math.abs(a.contribution||0)):
\* Array.prototype.sort is stable
SortByAbsDesc(list) ==
  IF list = <<>> THEN <<>>
  ELSE InsertDesc(SortByAbsDesc(SubSeq(list, 1, Len(list) - 1)), list[Len(list)])

\* part_001: val = c.contribution == null ? 0 : Number(c.contribution);
\* Math.abs(val) <= 1 ? (val*100).toFixed(2) + '%' : val.toFixed(4)
ModalDisplay(c) ==
  LET val == OrZero(Get(c, "contribution"))
  IN IF Abs(val) <= Unit THEN Pct(val, 2) \o "%" ELSE ToFixed(val, 4, 4)

\* part_001 renderContribList(targetEl, list)
renderContribList(list) ==
  IF list.t = "array" /\ Len(list.v) > 0
  THEN LET items == Slice(SortByAbsDesc(list.v), ContribCap)
       IN [i \in 1..Len(items) |-> Li(ToText(Get(items[i], "feature")), ModalDisplay(items[i]))]
  ELSE NoContributions

\* Frontend/script.js: (c.contribution || 0).toFixed(4)
ScriptDisplay(c) == ToFixed(OrZero(Get(c, "contribution")), 4, 4)

\* Frontend/script.js runCheck, the contributions block
ScriptContribs(list) ==
  IF list.t = "array" /\ Len(list.v) > 0
  THEN LET items == Slice(list.v, ContribCap)
       IN [i \in 1..Len(items) |-> Li(ToText(Get(items[i], "feature")), ScriptDisplay(items[i]))]
  ELSE NoContributions

\* App.jsx: (item.contribution * 100).toFixed(2) + "%"
DashDisplay(c) ==
  LET x == Get(c, "contribution")
  IN IF x.t = "undefined" THEN "NaN%" ELSE Pct(OrZero(x), 2) \o "%"

\* App.jsx: the "Top Risk Indicators" list rendered from result
DashContribs(list) ==
  IF list.t = "array" /\ Len(list.v) > 0
  THEN [i \in 1..Len(list.v) |-> Li(ToText(Get(list.v[i], "feature")), DashDisplay(list.v[i]))]
  ELSE <<>>

\* ------------------------------------------------------------------ state
VARIABLES
  app,          \* the front end this run is
  url,          \* urlEl.value (scripts) / the url state (React)
  busy,         \* busyEl is visible (scripts) / loading (React)
  msg,          \* msg.textContent (scripts)
  resultLabel,  \* resultLabel.textContent (script) / modalTitle.textContent (modal)
  confidenceEl, \* confidenceEl.textContent (script) / modalConfidence (modal)
  rawEl,        \* rawEl.textContent (script) / modalRaw.textContent (modal)
  contribEl,    \* the <li> children of contribEl (script) / modalContrib (modal)
  modalOpen,    \* resultModal is displayed (modal)
  storage,      \* localStorage["phish_history"]
  historyEl,    \* the history items rendered into historyEl, each with its click handler
  result,       \* React state result
  error,        \* React state error (dashboard)
  history,      \* React state history (dashboard)
  showHistory,  \* React state showHistory (dashboard)
  calls,        \* invocations of runCheck / scanUrl / handleScan suspended at await fetch
  issued,       \* number of fetches dispatched so far; a call's id is its rank
  now,          \* the clock (Date.now)
  explained     \* the explanations looked up so far, oldest first

vars == <<app, url, busy, msg, resultLabel, confidenceEl, rawEl, contribEl, modalOpen,
          storage, historyEl, result, error, history, showHistory, calls, issued, now,
          explained>>

ScriptApps == {"script", "modal"}
ReactApps == {"scanner", "dashboard"}
Apps == ScriptApps \cup ReactApps

\* the elements a script front end writes a scan's outcome into
display == <<msg, resultLabel, confidenceEl, rawEl, contribEl, modalOpen>>
\* the React state other than url and loading
reactState == <<result, error, history, showHistory>>

\* the text of rawEl: a plain text, or JSON.stringify(data, null, 2)
Text(s) == [kind |-> "text", text |-> s]
Json(d) == [kind |-> "json", data |-> d]

\* ------------------------------------------------------------ localStorage
\* The blob under "phish_history": absent (getItem gives null), a JSON
\* text, held as the value it denotes, or a text JSON.parse throws on.
Absent == [kind |-> "absent"]
Blob(v) == [kind |-> "json", value |-> v]
Unparsable == [kind |-> "text"]

\* JSON.stringify of a history record: a key whose value is undefined is left out
StringifyRecord(r) == [k \in {f \in DOMAIN r : f \in {"url", "t"} \/ r[f].t # "undefined"} |-> r[k]]

\* JSON.stringify of an array of history records
Stringify(h) == Arr([i \in 1..Len(h) |-> StringifyRecord(h[i])])

\* loadHistory(): JSON.parse(localStorage.getItem("phish_history") || "[]"), [] on a throw
loadHistory(st) ==
  IF st.kind = "absent" THEN Arr(<<>>)
  ELSE IF st.kind = "json" THEN st.value
  ELSE Arr(<<>>)

\* (it.confidence*100).toFixed(1) of a stored record
RowConfidence(x) ==
  IF x.t = "number" THEN Pct(x.v, 1) ELSE IF x.t = "null" THEN "0.0" ELSE "NaN"

\* renderHistory(): one item per record of loadHistory(), none when it is
\* empty. On a value without length (an object) !h.length holds and no item
\* is rendered; on null reading h.length throws before historyEl is touched,
\* which the callers (page load, the end of saveHistory) meet with an empty
\* or an array history only.
renderHistory(st) ==
  LET h == loadHistory(st)
  IN IF h.t = "array" /\ Len(h.v) > 0
     THEN [i \in 1..Len(h.v) |->
             [url |-> h.v[i].url, t |-> h.v[i].t,
              prediction |-> ToText(Get(h.v[i], "prediction")),
              confidence |-> RowConfidence(Get(h.v[i], "confidence"))]]
     ELSE <<>>

\* saveHistory(h): setItem(JSON.stringify(h.slice(0,30)))
saveHistory(h) == Blob(Stringify(Slice(h, HistoryCap)))

\* the record runCheck unshifts: Frontend/script.js keeps data.confidence,
\* part_001 stores data.confidence || 0
HistoryRecord(a, u, data) ==
  [url |-> u, t |-> now, prediction |-> Get(data, "prediction"),
   confidence |-> IF a = "modal" THEN Num(OrZero(Get(data, "confidence")))
                  ELSE Get(data, "confidence")]

\* StoreAfterScan with the skipStore test lost (a fault the replay property detects)
StoreAfterScanAlways(c, data) ==
  saveHistory(<<HistoryRecord(app, c.url, data)>> \o loadHistory(storage).v)

\* h.unshift(record) throws a TypeError when loadHistory() gave no array
StoreThrows(c) == ~c.skipStore /\ loadHistory(storage).t # "array"

\* the message of that TypeError
UnshiftFailed ==
  IF loadHistory(storage).t = "null" THEN "Cannot read properties of null (reading 'unshift')"
  ELSE "h.unshift is not a function"

\* StoreAfterScan with h.push in place of h.unshift (a fault the
\* newest-first property detects)
StoreAfterScanPush(c, data) ==
  IF c.skipStore THEN storage
  ELSE saveHistory(loadHistory(storage).v \o <<HistoryRecord(app, c.url, data)>>)

\* StoreAfterScan writing the new record without the history it loaded (a
\* fault the append property detects: the update of the other call is lost)
StoreAfterScanOverwrite(c, data) ==
  IF c.skipStore THEN storage
  ELSE saveHistory(<<HistoryRecord(app, c.url, data)>>)

\* if(!skipStore){ const h = loadHistory(); h.unshift(record); saveHistory(h); }
StoreAfterScan(c, data) ==
  IF c.skipStore THEN storage
  ELSE saveHistory(<<HistoryRecord(app, c.url, data)>> \o loadHistory(storage).v)

\* ------------------------------------------------- classification service
\* What await fetch(...) gives: a rejection (network failure), or a response
\* with res.ok, the body text, and the value the body denotes when it is JSON.
Reject == [kind |-> "reject"]
HttpJson(ok, text, data) == [kind |-> "http", ok |-> ok, text |-> text, isJson |-> TRUE, data |-> data]
HttpText(ok, text) == [kind |-> "http", ok |-> ok, text |-> text, isJson |-> FALSE]

Contribution(f, n) == [feature |-> Str(f), contribution |-> n]

PhishingBody ==
  [prediction |-> Str("Phishing"), confidence |-> Num(9300),
   top_contributions |-> Arr(<<Contribution("ip_address", Num(3100))>>)]
LegitimateBody == [prediction |-> Str("Legitimate"), confidence |-> Null]
ErrorBody == [error |-> Str("Invalid URL")]

Responses ==
  { Reject,
    HttpJson(TRUE, "{phishing}", PhishingBody),
    HttpJson(TRUE, "{legitimate}", LegitimateBody),
    HttpJson(FALSE, "{\"error\":\"Invalid URL\"}", ErrorBody),
    HttpText(FALSE, "Internal Server Error"),
    HttpText(TRUE, "<html>") }

\* err.message of what await fetch / res.json() throws
FetchFailed == "Failed to fetch"
JsonFailed == "Unexpected token < in JSON at position 0"

\* the URLs a user types; the Sample button of the scripts fills in SampleUrl
SampleUrl == "http://paypal.com.security-checkupdate.com/login"
Urls == {"", "  ", " b.io "}

Call(id, u, skipStore) == [id |-> id, url |-> u, skipStore |-> skipStore]

\* ------------------------------------------------------------------- Init
Init ==
  /\ app \in Apps
  /\ url = ""
  /\ busy = FALSE
  /\ msg = ""
  /\ resultLabel = ""
  /\ confidenceEl = ""
  /\ rawEl = Text("")
  /\ contribEl = <<>>
  /\ modalOpen = FALSE
  /\ storage = Absent
  /\ historyEl = renderHistory(Absent)
  /\ result = Null
  /\ error = Null
  /\ history = <<>>
  /\ showHistory = FALSE
  /\ calls = {}
  /\ issued = 0
  /\ now = 0
  /\ explained = <<>>

\* ---------------------------------------------------------- user and clock
\* the user edits the URL field (React: onChange -> setUrl)
Type(u) ==
  /\ url' = u
  /\ UNCHANGED <<app, explained, busy, display, storage, historyEl, reactState, calls, issued, now>>

\* document.getElementById("sample").onclick
Sample ==
  /\ app \in ScriptApps
  /\ url' = SampleUrl
  /\ UNCHANGED <<app, explained, busy, display, storage, historyEl, reactState, calls, issued, now>>

\* time passes
Tick ==
  /\ now < MaxClock
  /\ now' = now + 1
  /\ UNCHANGED <<app, explained, url, busy, display, storage, historyEl, reactState, calls, issued>>

\* ------------------------------------------------- Frontend scripts: runCheck
\* runCheck(u, skipStore) up to await fetch; urlNow is urlEl.value as the
\* caller left it
runCheck(u, skipStore, urlNow, budget) ==
  IF u = ""
  THEN /\ msg' = "Enter a URL."
       /\ url' = urlNow
       /\ UNCHANGED <<app, explained, busy, resultLabel, confidenceEl, rawEl, contribEl, modalOpen,
                      storage, historyEl, reactState, calls, issued, now>>
  ELSE /\ issued < budget
       /\ msg' = ""
       /\ busy' = TRUE
       /\ issued' = issued + 1
       /\ calls' = calls \cup {Call(issued + 1, u, skipStore)}
       /\ url' = urlNow
       /\ UNCHANGED <<app, explained, resultLabel, confidenceEl, rawEl, contribEl, modalOpen,
                      storage, historyEl, reactState, now>>

\* checkBtn.onclick = () => runCheck(urlEl.value.trim())
Check(budget) ==
  /\ app \in ScriptApps
  /\ runCheck(Trim(url), FALSE, url, budget)

\* HistoryClick replaying the URL of the rendered item instead of reading
\* the stored one (a fault the out-of-range property detects)
HistoryClickRendered(i, budget) ==
  /\ app \in ScriptApps
  /\ i \in 1..Len(historyEl)
  /\ runCheck(historyEl[i].url, TRUE, historyEl[i].url, budget)

\* the onclick of history item i (1-based): h = loadHistory();
\* urlEl.value = h[idx].url; runCheck(h[idx].url, true)
HistoryClick(i, budget) ==
  /\ app \in ScriptApps
  /\ i \in 1..Len(historyEl)
  /\ LET h == loadHistory(storage)
     IN IF h.t = "array" /\ i <= Len(h.v)
        THEN runCheck(h.v[i].url, TRUE, h.v[i].url, budget)
        ELSE UNCHANGED vars   \* h[idx] is undefined: the handler throws a TypeError

\* Thrown with the res.ok test left out (a fault the error-leaves-history
\* property detects)
ThrownNoOkTest(resp) ==
  IF resp.kind = "reject" THEN FetchFailed
  ELSE IF ~resp.isJson THEN JsonFailed
  ELSE ""

\* the message of the exception runCheck's try block throws before it shows
\* anything, "" when it throws none
Thrown(resp) ==
  IF resp.kind = "reject" THEN FetchFailed
  ELSE IF ~resp.ok THEN "API Error: " \o resp.text
  ELSE IF ~resp.isJson THEN JsonFailed
  ELSE ""

\* ScriptResume with setBusy(false) at the end of the try block instead of
\* the finally block (a fault the termination property detects)
ScriptResumeNoFinally(c, resp) ==
  /\ app = "script"
  /\ c \in calls
  /\ calls' = calls \ {c}
  /\ busy' = (Thrown(resp) # "" /\ busy)
  /\ IF Thrown(resp) # ""
     THEN /\ rawEl' = Text("Error: " \o Thrown(resp))
          /\ resultLabel' = "Error"
          /\ confidenceEl' = ""
          /\ UNCHANGED <<contribEl, storage, historyEl>>
     ELSE IF StoreThrows(c)
     THEN \* the result was written, then the catch block overwrites it
          /\ rawEl' = Text("Error: " \o UnshiftFailed)
          /\ resultLabel' = "Error"
          /\ confidenceEl' = ""
          /\ contribEl' = ScriptContribs(Get(resp.data, "top_contributions"))
          /\ UNCHANGED <<storage, historyEl>>
     ELSE /\ resultLabel' = ToText(Get(resp.data, "prediction"))
          /\ confidenceEl' = "Confidence: " \o Pct(OrZero(Get(resp.data, "confidence")), 1) \o "%"
          /\ rawEl' = Json(resp.data)
          /\ contribEl' = ScriptContribs(Get(resp.data, "top_contributions"))
          /\ storage' = StoreAfterScan(c, resp.data)
          /\ historyEl' = IF c.skipStore THEN historyEl ELSE renderHistory(storage')
  /\ UNCHANGED <<app, explained, url, msg, modalOpen, reactState, issued, now>>

\* Frontend/script.js runCheck from the resolution of await fetch to its end
ScriptResume(c, resp) ==
  /\ app = "script"
  /\ c \in calls
  /\ calls' = calls \ {c}
  /\ busy' = FALSE
  /\ IF Thrown(resp) # ""
     THEN /\ rawEl' = Text("Error: " \o Thrown(resp))
          /\ resultLabel' = "Error"
          /\ confidenceEl' = ""
          /\ UNCHANGED <<contribEl, storage, historyEl>>
     ELSE IF StoreThrows(c)
     THEN \* the result was written, then the catch block overwrites it
          /\ rawEl' = Text("Error: " \o UnshiftFailed)
          /\ resultLabel' = "Error"
          /\ confidenceEl' = ""
          /\ contribEl' = ScriptContribs(Get(resp.data, "top_contributions"))
          /\ UNCHANGED <<storage, historyEl>>
     ELSE /\ resultLabel' = ToText(Get(resp.data, "prediction"))
          /\ confidenceEl' = "Confidence: " \o Pct(OrZero(Get(resp.data, "confidence")), 1) \o "%"
          /\ rawEl' = Json(resp.data)
          /\ contribEl' = ScriptContribs(Get(resp.data, "top_contributions"))
          /\ storage' = StoreAfterScan(c, resp.data)
          /\ historyEl' = IF c.skipStore THEN historyEl ELSE renderHistory(storage')
  /\ UNCHANGED <<app, explained, url, msg, modalOpen, reactState, issued, now>>

\* part_001: data.confidence == null ? "Confidence: N/A" : ...toFixed(1) + "%"
ModalConfidence(x) ==
  IF x.t = "number" THEN "Confidence: " \o Pct(x.v, 1) \o "%" ELSE "Confidence: N/A"

\* part_001 runCheck from the resolution of await fetch to its end
ModalResume(c, resp) ==
  /\ app = "modal"
  /\ c \in calls
  /\ calls' = calls \ {c}
  /\ busy' = FALSE
  /\ IF Thrown(resp) # ""
     THEN /\ msg' = "Error: " \o Thrown(resp)
          /\ UNCHANGED <<resultLabel, confidenceEl, rawEl, contribEl, modalOpen, storage, historyEl>>
     ELSE /\ resultLabel' = (IF ToText(Get(resp.data, "prediction")) = "" THEN "Result"
                             ELSE ToText(Get(resp.data, "prediction")))
          /\ confidenceEl' = ModalConfidence(Get(resp.data, "confidence"))
          /\ contribEl' = renderContribList(Get(resp.data, "top_contributions"))
          /\ rawEl' = Json(resp.data)
          /\ modalOpen' = TRUE
          /\ IF StoreThrows(c)
             THEN \* the modal is open with the result when the catch block runs
                  /\ msg' = "Error: " \o UnshiftFailed
                  /\ UNCHANGED <<storage, historyEl>>
             ELSE /\ storage' = StoreAfterScan(c, resp.data)
                  /\ historyEl' = IF c.skipStore THEN historyEl ELSE renderHistory(storage')
                  /\ UNCHANGED msg
  /\ UNCHANGED <<app, explained, url, reactState, issued, now>>

\* modalBackdrop.onclick = modalClose.onclick = closeModal
closeModal ==
  /\ app = "modal"
  /\ modalOpen
  /\ modalOpen' = FALSE
  /\ UNCHANGED <<app, explained, url, busy, msg, resultLabel, confidenceEl, rawEl, contribEl,
                 storage, historyEl, reactState, calls, issued, now>>

\* ------------------------------------------------------- React front ends
\* a React state holding a JSON object
Obj(d) == [t |-> "object", v |-> d]

\* part_000 scanUrl up to await fetch (the Scan button is disabled while loading)
scanUrl(budget) ==
  /\ app = "scanner"
  /\ ~busy
  /\ IF url = ""
     THEN UNCHANGED vars
     ELSE /\ issued < budget
          /\ busy' = TRUE
          /\ result' = Null
          /\ issued' = issued + 1
          /\ calls' = calls \cup {Call(issued + 1, url, FALSE)}
          /\ UNCHANGED <<app, explained, url, display, storage, historyEl, error, history, showHistory, now>>

\* part_000 scanUrl from the resolution of await fetch to its end
ScannerResume(c, resp) ==
  /\ app = "scanner"
  /\ c \in calls
  /\ calls' = calls \ {c}
  /\ busy' = FALSE
  /\ result' = IF resp.kind = "http" /\ resp.isJson THEN Obj(resp.data)
               ELSE Obj([error |-> Str("Failed to connect to API.")])
  /\ UNCHANGED <<app, explained, url, display, storage, historyEl, error, history, showHistory, issued, now>>

\* handleScan with the Scan button left enabled while loading (a fault the
\* one-request-in-flight property detects)
handleScanNotDisabled(budget) ==
  /\ app = "dashboard"
  /\ IF Trim(url) = ""
     THEN UNCHANGED vars
     ELSE /\ issued < budget
          /\ busy' = TRUE
          /\ error' = Null
          /\ issued' = issued + 1
          /\ calls' = calls \cup {Call(issued + 1, url, FALSE)}
          /\ UNCHANGED <<app, explained, url, display, storage, historyEl, result, history, showHistory, now>>

\* App.jsx handleScan up to await fetch (the Scan button is disabled while loading)
handleScan(budget) ==
  /\ app = "dashboard"
  /\ ~busy
  /\ IF Trim(url) = ""
     THEN UNCHANGED vars
     ELSE /\ issued < budget
          /\ busy' = TRUE
          /\ error' = Null
          /\ issued' = issued + 1
          /\ calls' = calls \cup {Call(issued + 1, url, FALSE)}
          /\ UNCHANGED <<app, explained, url, display, storage, historyEl, result, history, showHistory, now>>

\* new Date().toLocaleTimeString()
TimeString(t) == ToString(t) \o ":00"

\* the entry handleScan puts in front of the history
DashRecord(c, data) ==
  [url |-> c.url, prediction |-> Get(data, "prediction"),
   confidence |-> Get(data, "confidence"), time |-> TimeString(now)]

\* setHistory((prev) => [record, ...prev])
setHistory(prev, rec) == <<rec>> \o prev

\* new Error(data.error || "Scan failed").message
ScanFailed(data) ==
  IF ToText(Get(data, "error")) = "" THEN "Scan failed" ELSE ToText(Get(data, "error"))

\* App.jsx handleScan from the resolution of await fetch to its end
DashResume(c, resp) ==
  /\ app = "dashboard"
  /\ c \in calls
  /\ calls' = calls \ {c}
  /\ busy' = FALSE
  /\ IF resp.kind = "reject"
     THEN error' = Str(FetchFailed) /\ UNCHANGED <<result, history>>
     ELSE IF ~resp.isJson
     THEN error' = Str(JsonFailed) /\ UNCHANGED <<result, history>>
     ELSE IF ~resp.ok
     THEN error' = Str(ScanFailed(resp.data)) /\ UNCHANGED <<result, history>>
     ELSE /\ result' = Obj(resp.data)
          /\ history' = setHistory(history, DashRecord(c, resp.data))
          /\ UNCHANGED error
  /\ UNCHANGED <<app, explained, url, display, storage, historyEl, showHistory, issued, now>>

\* the "View Scan History" and "Close" buttons: setShowHistory(v)
setShowHistory(v) ==
  /\ app = "dashboard"
  /\ showHistory # v
  /\ showHistory' = v
  /\ UNCHANGED <<app, explained, url, busy, display, storage, historyEl, result, error, history,
                 calls, issued, now>>

\* ---------------------------------------------------------------- restart
\* Restart with the scripts' initial renderHistory() lost (a fault the restart
\* property detects)
RestartWithoutRender ==
  /\ url' = ""
  /\ busy' = FALSE
  /\ msg' = ""
  /\ resultLabel' = ""
  /\ confidenceEl' = ""
  /\ rawEl' = Text("")
  /\ contribEl' = <<>>
  /\ modalOpen' = FALSE
  /\ storage' = storage
  /\ historyEl' = <<>>
  /\ result' = Null
  /\ error' = Null
  /\ history' = <<>>
  /\ showHistory' = FALSE
  /\ calls' = {}
  /\ UNCHANGED <<app, explained, issued, now>>

\* The page is loaded again: every in-memory state is dropped (pending calls
\* with it), localStorage stays, and the scripts run renderHistory().
Restart ==
  /\ url' = ""
  /\ busy' = FALSE
  /\ msg' = ""
  /\ resultLabel' = ""
  /\ confidenceEl' = ""
  /\ rawEl' = Text("")
  /\ contribEl' = <<>>
  /\ modalOpen' = FALSE
  /\ storage' = storage
  /\ historyEl' = renderHistory(storage)
  /\ result' = Null
  /\ error' = Null
  /\ history' = <<>>
  /\ showHistory' = FALSE
  /\ calls' = {}
  /\ UNCHANGED <<app, explained, issued, now>>

\* ------------------------------------------------------------------- Next
Next ==
  \/ \E u \in Urls : Type(u)
  \/ Sample
  \/ Tick
  \/ Check(MaxCalls)
  \/ \E i \in 1..HistoryCap : HistoryClick(i, MaxCalls)
  \/ \E c \in calls, r \in Responses : ScriptResume(c, r)
  \/ \E c \in calls, r \in Responses : ModalResume(c, r)
  \/ closeModal
  \/ scanUrl(MaxCalls)
  \/ \E c \in calls, r \in Responses : ScannerResume(c, r)
  \/ handleScan(MaxCalls)
  \/ \E c \in calls, r \in Responses : DashResume(c, r)
  \/ \E v \in BOOLEAN : setShowHistory(v)
  \/ Restart

Spec == Init /\ [][Next]_vars

\* call number i is suspended at await fetch
Pending(i) == \E c \in calls : c.id = i

\* The front ends with a service whose every call eventually resolves or
\* fails: the continuation of each suspended call is eventually run.
NextLive ==
  \/ Type(" b.io ")
  \/ Check(MaxCalls)
  \/ \E i \in 1..HistoryCap : HistoryClick(i, MaxCalls)
  \/ \E c \in calls, r \in Responses : ScriptResume(c, r)
  \/ \E c \in calls, r \in Responses : ModalResume(c, r)
  \/ closeModal
  \/ scanUrl(MaxCalls)
  \/ \E c \in calls, r \in Responses : ScannerResume(c, r)
  \/ handleScan(MaxCalls)
  \/ \E c \in calls, r \in Responses : DashResume(c, r)

SpecLive ==
  /\ Init
  /\ [][NextLive]_vars
  /\ \A i \in 1..MaxCalls :
       WF_vars(\E c \in calls, r \in Responses :
                 /\ c.id = i
                 /\ (ScriptResume(c, r) \/ ModalResume(c, r) \/ ScannerResume(c, r) \/ DashResume(c, r)))

\* ------------------------------------------------ blobs found in storage
\* What a script front end may find under "phish_history" when its page
\* loads, and what another page of the origin may put there meanwhile:
\* nothing, a text that is not JSON, JSON that is no array (null, an object),
\* and histories saved earlier.
StoredRecord(u, t) ==
  [url |-> u, t |-> t, prediction |-> Str("Phishing"), confidence |-> Num(9300)]

StoredBlobs ==
  { Absent, Unparsable, Blob(Null), Blob(Obj(<<>>)),
    Blob(Arr(<<StoredRecord("a.io", 0)>>)),
    Blob(Arr(<<StoredRecord("b.io", 0), StoredRecord("a.io", 0)>>)) }

\* the page of a script front end loads over the blob st
InitStore ==
  /\ app \in ScriptApps
  /\ url = ""
  /\ busy = FALSE
  /\ msg = ""
  /\ resultLabel = ""
  /\ confidenceEl = ""
  /\ rawEl = Text("")
  /\ contribEl = <<>>
  /\ modalOpen = FALSE
  /\ storage \in StoredBlobs
  /\ historyEl = renderHistory(storage)
  /\ result = Null
  /\ error = Null
  /\ history = <<>>
  /\ showHistory = FALSE
  /\ calls = {}
  /\ issued = 0
  /\ now = 0
  /\ explained = <<>>

\* another page of the origin (or the user) replaces or removes the blob;
\* the scripts listen to no storage event, so the rendered list stays
StorageWritten(b) ==
  /\ app \in ScriptApps
  /\ storage # b
  /\ storage' = b
  /\ UNCHANGED <<app, explained, url, busy, display, historyEl, reactState, calls, issued, now>>

StoreResponses == { Reject, HttpJson(TRUE, "{phishing}", PhishingBody) }

NextStore ==
  \/ Type(" b.io ")
  \/ Check(MaxCalls)
  \/ \E i \in 1..HistoryCap : HistoryClick(i, MaxCalls)
  \/ \E c \in calls, r \in StoreResponses : ScriptResume(c, r)
  \/ \E c \in calls, r \in StoreResponses : ModalResume(c, r)
  \/ closeModal
  \/ \E b \in StoredBlobs : StorageWritten(b)

SpecStore == InitStore /\ [][NextStore]_vars

\* -------------------------------------------- bodies outside the contract
\* a JSON body of an error status that has no "error" key
NotFoundBody == [detail |-> Str("Not Found")]
\* a JSON body of a success status that has no "prediction" key
NoPredictionBody == [confidence |-> Num(5000)]

BodyResponses ==
  Responses \cup { HttpJson(FALSE, "{\"detail\":\"Not Found\"}", NotFoundBody),
                   HttpJson(TRUE, "{\"confidence\":0.5}", NoPredictionBody) }

NextBodies ==
  \/ Type(" b.io ")
  \/ Check(2)
  \/ \E i \in 1..HistoryCap : HistoryClick(i, 2)
  \/ \E c \in calls, r \in BodyResponses : ScriptResume(c, r)
  \/ \E c \in calls, r \in BodyResponses : ModalResume(c, r)
  \/ closeModal
  \/ scanUrl(2)
  \/ \E c \in calls, r \in BodyResponses : ScannerResume(c, r)
  \/ handleScan(2)
  \/ \E c \in calls, r \in BodyResponses : DashResume(c, r)

SpecBodies == Init /\ [][NextBodies]_vars

\* ------------------------------------------------- explanation lookups
MaxLookups == 2

\* Feature ids a lookup is made with: every registered key, the reserved key
\* itself, registered keys in another case, and ids that are not registered.
FeatureIds ==
  DOMAIN FEATURE_EXPLANATIONS
    \cup {"Length_URL", "IP_ADDRESS", "ip_address ", "", "qty_at_url", "tls_ssl_certificate"}

Explain(featureId) ==
  /\ Len(explained) < MaxLookups
  /\ explained' = Append(explained, [featureId |-> featureId, text |-> explain(featureId)])
  /\ UNCHANGED <<app, url, busy, display, storage, historyEl, reactState, calls, issued, now>>

NextExplain == \E f \in FeatureIds : Explain(f)

SpecExplain == Init /\ [][NextExplain]_vars

\* ------------------------------------------- display of the contributions
\* The specification of one scan per run (a budget of 1 fetch) whose response
\* carries any of the enumerated contribution lists.

ContribValues == {Num(5000), Num(-5000), Num(-9000), Num(1000), Num(10000), Num(15000), Null}

FeatureNames == <<"ip_address", "length_url", "not_a_real_feature", "qty_subdomain">>

\* the feature at position i of an enumerated list (distinct per position)
FeatureAt(i) == IF i <= Len(FeatureNames) THEN FeatureNames[i] ELSE "feature_" \o ToString(i)

RECURSIVE ListsOfLen(_)
ListsOfLen(n) ==
  IF n = 0 THEN {<<>>}
  ELSE {Append(l, Contribution(FeatureAt(n), v)) : l \in ListsOfLen(n - 1), v \in ContribValues}

\* n contributions of growing magnitude: 0.1, 0.2, ...
LongList(n) == [i \in 1..n |-> Contribution(FeatureAt(i), Num(i * 1000))]

RawLists ==
  UNION {ListsOfLen(n) : n \in 0..MaxContribs}
    \cup {LongList(n) : n \in ContribCap..(ContribCap + 2)}

NormResponses ==
  {HttpJson(TRUE, "{contributions}",
            [prediction |-> Str("Phishing"), confidence |-> Num(9300),
             top_contributions |-> Arr(l)]) : l \in RawLists}
    \cup {HttpJson(TRUE, "{legitimate}", LegitimateBody)}

InitNorm == Init /\ app \in {"script", "modal", "dashboard"}

NextNorm ==
  \/ Type("a.io")
  \/ Check(1)
  \/ \E c \in calls, r \in NormResponses : ScriptResume(c, r)
  \/ \E c \in calls, r \in NormResponses : ModalResume(c, r)
  \/ handleScan(1)
  \/ \E c \in calls, r \in NormResponses : DashResume(c, r)

SpecNorm == InitNorm /\ [][NextNorm]_vars

\* ---------------------------------------------------- history at capacity
\* The specification of a long run of successful scans of one URL, one at a
\* time, with the clock standing still.
CapCalls == HistoryCap + 2

CapResponses == {HttpJson(TRUE, "{phishing}", PhishingBody)}

InitCap == Init /\ app \in {"script", "modal", "dashboard"}

NextCap ==
  \/ Type("a.io")
  \/ (calls = {} /\ Check(CapCalls))
  \/ \E c \in calls, r \in CapResponses : ScriptResume(c, r)
  \/ \E c \in calls, r \in CapResponses : ModalResume(c, r)
  \/ handleScan(CapCalls)
  \/ \E c \in calls, r \in CapResponses : DashResume(c, r)

SpecCap == InitCap /\ [][NextCap]_vars

\* ------------------------------------------------------------- observers
\* the history a front end shows: the persisted log of the scripts, the
\* history state of the dashboard (part_000 keeps none)
Log ==
  IF app \in ScriptApps
  THEN (IF loadHistory(storage).t = "array" THEN loadHistory(storage).v ELSE <<>>)
  ELSE IF app = "dashboard" THEN history
  ELSE <<>>

\* the contributions on display
ShownContribs ==
  IF app \in ScriptApps THEN SelectSeq(contribEl, LAMBDA li : li.kind = "item")
  ELSE IF app = "dashboard" /\ result # Null THEN DashContribs(Get(result.v, "top_contributions"))
  ELSE <<>>

\* the raw contributions of the response on display (rawEl / modalRaw show
\* the response itself, result is the response)
RawContribs ==
  LET data == IF app \in ScriptApps THEN (IF rawEl.kind = "json" THEN rawEl.data ELSE <<>>)
              ELSE IF app = "dashboard" /\ result # Null THEN result.v
              ELSE <<>>
      list == Get(data, "top_contributions")
  IN IF list.t = "array" THEN list.v ELSE <<>>

\* a scan's response is on display
ResponseShown ==
  IF app \in ScriptApps THEN rawEl.kind = "json" ELSE app = "dashboard" /\ result # Null

\* the response whose result is on display
ShownData ==
  IF app \in ScriptApps THEN (IF rawEl.kind = "json" THEN rawEl.data ELSE <<>>)
  ELSE IF result # Null THEN result.v ELSE <<>>

\* part_000: Confidence: {result.confidence == null ? "N/A" : (result.confidence * 100).toFixed(1) + "%"}
ScannerConfidence(x) ==
  IF x.t = "number" THEN "Confidence: " \o Pct(x.v, 1) \o "%" ELSE "Confidence: N/A"

\* App.jsx: confidencePct = result?.confidence ? Math.round(result.confidence * 100) : 0,
\* rendered as Confidence: {confidencePct}%
confidencePct(x) ==
  IF x.t = "number" /\ x.v > 0 THEN (x.v * 100 + Unit \div 2) \div Unit
  ELSE IF x.t = "number" /\ x.v < 0 THEN -((-(x.v) * 100 + Unit \div 2 - 1) \div Unit)
  ELSE 0

\* the confidence line of the result on display
ConfidenceShown ==
  IF app \in ScriptApps THEN confidenceEl
  ELSE IF app = "scanner" THEN ScannerConfidence(Get(ShownData, "confidence"))
  ELSE "Confidence: " \o ToString(confidencePct(Get(ShownData, "confidence"))) \o "%"

\* the completion of call c with response resp, in whichever front end runs
Resume(c, resp) ==
  \/ ScriptResume(c, resp)
  \/ ModalResume(c, resp)
  \/ ScannerResume(c, resp)
  \/ DashResume(c, resp)

\* the error message on display, "" when none is: rawEl under the "Error"
\* label (script), the message line (modal), result.error (scanner, rendered
\* when truthy), the error state (dashboard)
ErrorMessage ==
  IF app = "script" THEN (IF resultLabel = "Error" /\ rawEl.kind = "text" THEN rawEl.text ELSE "")
  ELSE IF app = "modal" THEN (IF msg = "Enter a URL." THEN "" ELSE msg)
  ELSE IF app = "scanner" THEN (IF result = Null THEN "" ELSE ToText(Get(result.v, "error")))
  ELSE ToText(error)

\* ------------------------------------------------------------ properties

\* C1: in every front end, a submit of a URL whose trimmed form is empty
\* performs no network call (no fetch is dispatched), and the scripts, which
\* have a message line, report it there.
C1_BlankUrlNeverFetched ==
  [][(Trim(url) = "" /\ (Check(MaxCalls) \/ scanUrl(MaxCalls) \/ handleScan(MaxCalls)))
       => /\ calls' = calls
          /\ issued' = issued
          /\ (app \in ScriptApps => msg' = "Enter a URL.")]_vars

\* C2: supersession. When the response of a call A arrives although a later
\* call B was issued and B's response has already arrived, A's response is
\* discarded: what is on display stays as B left it.
C2_StaleResponseDiscarded ==
  [][\A c \in calls, r \in Responses :
       ( /\ c.id < issued
         /\ ~(\E d \in calls : d.id = issued)
         /\ (ScriptResume(c, r) \/ ModalResume(c, r) \/ ScannerResume(c, r) \/ DashResume(c, r)) )
       => UNCHANGED <<msg, resultLabel, confidenceEl, rawEl, contribEl, result, error>>]_vars

\* C3: after N successful non-replay submissions from an empty log the
\* history of every front end that keeps one has exactly min(N, 30) records
\* (so never more than 30).
C3_HistoryLengthIsMinN ==
  app \in ScriptApps \cup {"dashboard"}
    => Len(Log) = Min(issued - Cardinality(calls), HistoryCap)

C5_SuccessPrependsResponse ==
  [][\A c \in calls, r \in Responses :
       ( /\ ~c.skipStore
         /\ r.kind = "http" /\ r.ok /\ r.isJson
         /\ (ScriptResume(c, r) \/ ModalResume(c, r) \/ DashResume(c, r)) )
       => /\ Len(Log') = Len(Log) + 1
          /\ SubSeq(Log', 2, Len(Log')) = Log
          /\ Log'[1].url = c.url
          /\ Get(Log'[1], "prediction") = Get(r.data, "prediction")
          /\ Get(Log'[1], "confidence") = Get(r.data, "confidence")]_vars

\* C6 as stated: in every front end that shows a history, a restart leaves
\* the history that load() gives exactly as it was.
C6_HistorySurvivesRestart ==
  [][Restart => Log' = Log]_vars

\* C6 amended: in the Frontend scripts the persisted log and the rendered
\* history list are after a restart exactly what they were before it; the
\* history of the React dashboard is empty after a restart.
C6_ScriptHistorySurvivesRestart ==
  [][Restart =>
       IF app \in ScriptApps
       THEN /\ loadHistory(storage') = loadHistory(storage)
            /\ historyEl' = historyEl
       ELSE Log' = <<>>]_vars

\* C6 witness: a script front end freshly restarted (nothing on display,
\* nothing pending) that shows a non-empty history.
C6_RestartedWithHistory ==
  /\ app \in ScriptApps
  /\ calls = {}
  /\ resultLabel = "" /\ rawEl = Text("") /\ contribEl = <<>>
  /\ Len(Log) > 0
  /\ Len(historyEl) = Len(Log)

\* the position in the raw list of the contribution an <li> shows (the
\* enumerated lists name each position's feature differently)
RawIndex(li) == CHOOSE k \in 1..Len(RawContribs) : ToText(Get(RawContribs[k], "feature")) = li.feature

\* C7: the contributions on display are in descending order of absolute
\* contribution, equal ones in arrival order.
C7_ShownSortedStable ==
  \A i, j \in 1..Len(ShownContribs) :
    i < j =>
      LET a == RawIndex(ShownContribs[i])
          b == RawIndex(ShownContribs[j])
      IN \/ SortKey(RawContribs[a]) > SortKey(RawContribs[b])
         \/ (SortKey(RawContribs[a]) = SortKey(RawContribs[b]) /\ a < b)

\* C8: the number of contributions on display is min(n, 8), n the number of
\* raw contributions of the response.
C8_ShownAtMostEight ==
  ResponseShown => Len(ShownContribs) = Min(Len(RawContribs), ContribCap)

\* C9: every contribution on display shows c*100 with 2 decimals and "%"
\* when |c| <= 1, and c with 4 decimals when |c| > 1.
C9_DualDisplayRule ==
  \A i \in 1..Len(ShownContribs) :
    LET c == OrZero(Get(RawContribs[RawIndex(ShownContribs[i])], "contribution"))
    IN ShownContribs[i].display =
         (IF Abs(c) <= Unit THEN Pct(c, 2) \o "%" ELSE ToFixed(c, 4, 4))

\* C10: every contribution on display carries a non-empty explanation, the
\* text registered for its feature or else the registry's default text.
C10_ShownHaveExplanation ==
  \A i \in 1..Len(ShownContribs) :
    LET li == ShownContribs[i]
    IN /\ "explanation" \in DOMAIN li
       /\ li.explanation =
            (IF li.feature \in DOMAIN FEATURE_EXPLANATIONS \ {DefaultKey}
             THEN FEATURE_EXPLANATIONS[li.feature] ELSE FEATURE_EXPLANATIONS[DefaultKey])
       /\ li.explanation # ""

\* C11: explain is total: a feature id that is exactly a registered key gets
\* that key's text ("length_url" the long-URL text, "ip_address" the
\* IP-address text), every other id gets the text of the reserved default
\* key, and the text returned is never empty.
C11_ExplainTotal ==
  \A i \in 1..Len(explained) :
     LET e == explained[i] IN
       /\ e.text # ""
       /\ e.featureId \in DOMAIN FEATURE_EXPLANATIONS => e.text = FEATURE_EXPLANATIONS[e.featureId]
       /\ e.featureId \notin DOMAIN FEATURE_EXPLANATIONS => e.text = FEATURE_EXPLANATIONS[DefaultKey]
       /\ e.featureId = "length_url" =>
            e.text = "Very long URLs are often used in phishing attacks to hide malicious parameters and confuse users."
       /\ e.featureId = "ip_address" =>
            e.text = "Using an IP address instead of a domain name is a strong indicator of phishing behavior."

C11_RegisteredAndUnregisteredExplained ==
  /\ Len(explained) = 2
  /\ explained[1].featureId = "ip_address"
  /\ explained[2].featureId = "IP_ADDRESS"
  /\ explained[1].text # explained[2].text

\* the texts an error message carrying the body of response resp may be
BodyMessages(resp) ==
  LET parts == {resp.text} \cup (IF resp.isJson THEN {ToText(Get(resp.data, "error"))} ELSE {})
  IN UNION {{b, "Error: " \o b, "API Error: " \o b, "Error: API Error: " \o b} : b \in parts \ {""}}

\* C12: in every front end a response with a non-2xx status ends the
\* submission in Error: an error message is on display, and it carries the
\* message of the response body, JSON or plain text, when the body has one.
C12_NonOkEndsInError ==
  [][\A c \in calls, r \in BodyResponses :
       (r.kind = "http" /\ ~r.ok /\ Resume(c, r)) =>
          /\ ErrorMessage' # ""
          /\ (r.text # "" => ErrorMessage' \in BodyMessages(r))]_vars

\* the body of a 2xx response does not match the response schema: it is not
\* JSON, or its prediction is missing or not a string
SchemaViolated(resp) ==
  resp.kind = "http" /\ resp.ok /\ (~resp.isJson \/ Get(resp.data, "prediction").t # "string")

\* C13: a 2xx response whose body does not match the schema ends the
\* submission in Error (an error message is on display) and appends no
\* record to the history.
C13_MalformedBodyEndsInError ==
  [][\A c \in calls, r \in BodyResponses :
       (SchemaViolated(r) /\ Resume(c, r)) => (ErrorMessage' # "" /\ Log' = Log)]_vars

\* C14: loadHistory() always gives a sequence: the persisted sequence when
\* one is stored, the empty sequence when nothing is stored or the stored
\* text cannot be parsed.
C14_LoadGivesSequence ==
  app \in ScriptApps =>
    /\ loadHistory(storage).t = "array"
    /\ storage \in {Absent, Unparsable} => loadHistory(storage) = Arr(<<>>)

\* the result of a scan is on display: the raw response (script), the open
\* result modal (modal), a result without error (scanner), the result state
\* (dashboard)
ResultShown ==
  IF app = "script" THEN rawEl.kind = "json"
  ELSE IF app = "modal" THEN modalOpen
  ELSE IF app = "scanner" THEN result # Null /\ ErrorMessage = ""
  ELSE result # Null

\* C15: a submit that enters Pending (a fetch is dispatched) clears the
\* previous result and the previous error, so no result of an earlier scan
\* and no error of an earlier scan is on display while the new one runs.
C15_PendingClearsResultAndError ==
  [][issued' = issued + 1 => (~ResultShown' /\ ErrorMessage' = "")]_vars

\* C16: the append of a non-replay scan that succeeds is one read-modify-write
\* of the persisted history: its record goes to index 0 and every record
\* stored before it, the one of a call that was in flight at the same time
\* and completed first included, stays behind it in order.
C16_AppendKeepsEarlierRecords ==
  [][\A c \in calls, r \in Responses :
       (app \in ScriptApps /\ ~c.skipStore /\ Thrown(r) = "" /\ Resume(c, r)) =>
          /\ Len(Log') = Min(Len(Log) + 1, HistoryCap)
          /\ Log'[1].url = c.url
          /\ Log'[1].t = now
          /\ \A i \in 2..Len(Log') : Log'[i] = Log[i - 1]]_vars

\* the record of the second call is stored while the first call, dispatched
\* before it, is still in flight
C16_StoredWhileOlderInFlight ==
  /\ app \in ScriptApps
  /\ issued = 2
  /\ Len(Log) = 1
  /\ \E c \in calls : c.id = 1 /\ ~c.skipStore

\* C17: whatever the persisted blob holds (nothing, unparsable text, JSON
\* that is no sequence of records), a non-replay submit that gets a valid 2xx
\* response ends in Success, putting no error on display, and a blob that
\* holds no history is treated as the empty history: afterwards the log is the
\* new record alone.
C17_CorruptedBlobNotSurfaced ==
  [][\A c \in calls, r \in StoreResponses :
       (app \in ScriptApps /\ ~c.skipStore /\ Thrown(r) = "" /\ Resume(c, r)) =>
          /\ ErrorMessage = "" => ErrorMessage' = ""
          /\ ResultShown'
          /\ Log = <<>> => (Len(Log') = 1 /\ Log'[1].url = c.url)]_vars

C20_NullConfidenceShownAsNA ==
  (ResultShown /\ Get(ShownData, "confidence").t \in {"null", "undefined"})
     => ConfidenceShown = "Confidence: N/A"

\* a url that is not empty and has no leading or trailing whitespace
IsTrimmed(u) == u # "" /\ Trim(u) = u

\* C21: every request that is dispatched carries a url that is non-empty and
\* trimmed, whatever whitespace was typed around it, and the url of every
\* history record is such a trimmed string.
C21_RequestUrlTrimmed ==
  /\ \A c \in calls : IsTrimmed(c.url)
  /\ \A i \in 1..Len(Log) : IsTrimmed(Log[i].url)

\* the response is a failure: a rejected fetch, a non-2xx status, or a body
\* that is not JSON
ErrorResponse(resp) == resp.kind = "reject" \/ ~resp.ok \/ ~resp.isJson

\* C22: a submit that ends in Error (rejected fetch, non-2xx response, body
\* that cannot be parsed) and a submit refused for an empty URL leave the
\* history exactly as it was: the persisted blob, the rendered list and the
\* dashboard's history state are unchanged.
C22_ErrorLeavesHistory ==
  [][( \/ \E c \in calls, r \in Responses : ErrorResponse(r) /\ Resume(c, r)
       \/ Trim(url) = "" /\ (Check(MaxCalls) \/ handleScan(MaxCalls)) )
       => (Log' = Log /\ UNCHANGED <<storage, historyEl, history>>)]_vars

\* a scan ended in Error after an earlier one had been recorded
C22_ErrorAfterRecordedScan ==
  /\ Len(Log) = 1
  /\ issued = 2
  /\ calls = {}
  /\ ErrorMessage # ""

\* C23: in the script front ends the busy indicator is visible in every
\* state in which a request is in flight, also after the first of two
\* overlapping submissions has completed.
C23_BusyWhileInFlight ==
  (app \in ScriptApps /\ calls # {}) => busy

\* C24: in every reachable state the timestamps of the persisted history
\* are non-increasing from index 0 on (newest first), whatever the order in
\* which the responses of overlapping submissions arrive, the clock never
\* running backwards.
C24_TimestampsNewestFirst ==
  app \in ScriptApps =>
    \A i, j \in 1..Len(Log) : i < j => Log[i].t >= Log[j].t

\* two scans recorded at different times, the later one first
C24_TwoRecordsAtDifferentTimes ==
  /\ app \in ScriptApps
  /\ Len(Log) = 2
  /\ Log[1].t > Log[2].t
  /\ Log[1].url # Log[2].url

\* C25: in the React front ends at most one request is in flight at any
\* time (the Scan button is disabled while loading), and loading is true
\* exactly while a request is in flight.
C25_OneRequestInFlight ==
  app \in ReactApps =>
    /\ Cardinality(calls) <= 1
    /\ busy <=> calls # {}

\* a second request is in flight, dispatched after the first had completed
C25_SecondRequestInFlight ==
  /\ app \in ReactApps
  /\ busy
  /\ \E c \in calls : c.id = 2

====
